---- MODULE Spec2Model ----
(***************************************************************************)
(* Model of test_personas/run.py: load_personas samples persona files,     *)
(* run() asks every persona for an individual response, then for a         *)
(* collective response that sees the other personas' individual            *)
(* responses, and returns both mappings.                                   *)
(***************************************************************************)
EXTENDS Integers, Sequences, FiniteSets

\* ------------------------------------------------------------------ bounds
\* Largest number of *.yaml files in the personas directory.
MaxFiles == 3

\* Persona names a file may carry.
Names == {"alice", "bob", "carol"}
\* Texts the completion service may return (two personas may get the same one).
Texts == {"buy", "sell"}

\* Content of a file: yaml.safe_load raises on it ...
Malformed == "<malformed>"
\* ... or it parses to a value on which persona['name'] raises ...
NoName == "<noname>"
\* ... or it parses to a record with that name.
FileKinds == Names \cup {Malformed, NoName}

\* The directory is taken up to the order glob lists its files in (the sample
\* permutes them anyway): files are listed by kind, in this order.
KindOrder == <<Malformed, NoName, "alice", "bob", "carol">>

KindRank(kind) == CHOOSE r \in DOMAIN KindOrder : KindOrder[r] = kind

\* Outcome of a completion call that raised.
Raised == "<raised>"

VARIABLES
    dirExists,             \* the personas directory exists and is readable
    files,                 \* files[f]: content kind of *.yaml file f of the directory
    num_personas,          \* agent_run.inputs.num_personas
    yaml_files,            \* load_personas: list(personas_path.glob('*.yaml'))
    selected_files,        \* load_personas: random.sample(...)
    personas,              \* the list load_personas returned
    error_log,             \* files for which load_personas logged an error
    individual_responses,  \* run: dict, as its insertion-ordered items
    collective_responses,  \* run: dict, as its insertion-ordered items
    idx,                   \* position of the running for loop in personas
    pc,                    \* position of run()
    error,                 \* exception run() ended with ("none": none)
    result,                \* <<>> or <<the dict run() returned>>
    calls                  \* completion calls issued so far, in order

vars == <<dirExists, files, num_personas, yaml_files, selected_files, personas,
          error_log, individual_responses, collective_responses, idx, pc,
          error, result, calls>>

\* ------------------------------------------------------------- helpers
Min(a, b) == IF a < b THEN a ELSE b

Range(s) == {s[k] : k \in DOMAIN s}

Injective(s) == \A a, b \in DOMAIN s : a # b => s[a] # s[b]

\* ------------------------------------------------------------ dict model
\* A Python dict as the sequence of its items <<key, value>> in insertion order.
Keys(d) == {d[k][1] : k \in DOMAIN d}

HasKey(d, key) == \E k \in DOMAIN d : d[k][1] = key

\* A buggy store that appends an item even when the key is present.
DictSetAppend(d, key, value) == Append(d, <<key, value>>)

\* d[key] = value: overwrites in place when the key is present, else appends.
DictSet(d, key, value) ==
    IF HasKey(d, key)
    THEN [k \in DOMAIN d |-> IF d[k][1] = key THEN <<key, value>> ELSE d[k]]
    ELSE Append(d, <<key, value>>)

\* ------------------------------------------------------- load_personas
\* personas_path.glob('*.yaml'): a missing or unreadable directory yields nothing.
Glob == IF dirExists THEN [f \in 1..Len(files) |-> f] ELSE <<>>

\* The size load_personas asks random.sample for.
SampleSize(count, available) == Min(count, Len(available))

\* A buggy sampler that draws with replacement.
IsSampleWithReplacement(s, population, k) ==
    /\ s \in [1..k -> Range(population)]

\* s is a possible value of random.sample(population, k), 0 <= k <= len.
IsSample(s, population, k) ==
    /\ s \in [1..k -> Range(population)]
    /\ Injective(s)

\* random.sample raises ValueError on a negative sample size.
SampleRaises(population, k) == k < 0 \/ k > Len(population)

\* open()/yaml.safe_load raises on file f.
ParseRaises(f) == files[f] = Malformed

\* persona['name'] raises on the persona (no such key, or not a mapping).
NameRaises(persona) == persona.name = NoName

\* yaml.safe_load(f) of a file that parses.
SafeLoad(f) == [src |-> f, name |-> files[f]]

\* A buggy loop body without the try/except skip: a placeholder is appended
\* for a file that does not parse.
LoadOneNoSkip(st, f) ==
    [personas |-> Append(st.personas, [src |-> f, name |-> NoName]),
     errors |-> IF files[f] \in Names THEN st.errors ELSE Append(st.errors, f)]

\* One iteration of the for loop of load_personas on file f, from the
\* personas and logged errors st: the append precedes the debug line
\* that reads persona['name'], and both are inside the try.
LoadOne(st, f) ==
    IF ParseRaises(f)
    THEN [personas |-> st.personas, errors |-> Append(st.errors, f)]
    ELSE IF NameRaises(SafeLoad(f))
         THEN [personas |-> Append(st.personas, SafeLoad(f)),
               errors |-> Append(st.errors, f)]
         ELSE [personas |-> Append(st.personas, SafeLoad(f)),
               errors |-> st.errors]

RECURSIVE LoadAll(_, _)
\* The whole for loop of load_personas over the selected files.
LoadAll(st, sel) ==
    IF sel = <<>> THEN st ELSE LoadAll(LoadOne(st, Head(sel)), Tail(sel))

\* --------------------------------------------------------------- run()
\* [resp for name, resp in individual_responses.items()], unfiltered (buggy).
AllResponses(d, name) == [k \in DOMAIN d |-> d[k][2]]

\* [resp for name, resp in individual_responses.items() if name != persona['name']]
OtherResponses(d, name) ==
    LET kept == SelectSeq(d, LAMBDA item : item[1] # name)
    IN  [k \in DOMAIN kept |-> kept[k][2]]

\* A buggy loop that ends after its first persona.
LoopDoneEarly(i, ps) == i > 1 \/ i > Len(ps)

\* The for loop over personas has no persona left at position i.
LoopDone(i, ps) == i > Len(ps)

Call(fn, p, others, outcome) ==
    [fn |-> fn, persona |-> p, other_responses |-> others, outcome |-> outcome]

Init ==
    /\ dirExists \in BOOLEAN
    /\ files \in UNION {[1..n -> FileKinds] : n \in 0..MaxFiles}
    /\ \A f \in DOMAIN files :
          f > 1 => KindRank(files[f - 1]) <= KindRank(files[f])
    /\ (~dirExists => files = <<>>)
    \* a count above the number of files arises with a smaller directory
    /\ num_personas \in -1..MaxFiles
    /\ yaml_files = <<>>
    /\ selected_files = <<>>
    /\ personas = <<>>
    /\ error_log = <<>>
    /\ individual_responses = <<>>
    /\ collective_responses = <<>>
    /\ idx = 1
    /\ pc = "load"
    /\ error = "none"
    /\ result = <<>>
    /\ calls = <<>>

\* load_personas returns: a sample is drawn and every selected file is loaded.
LoadPersonas ==
    /\ pc = "load"
    /\ ~SampleRaises(Glob, SampleSize(num_personas, Glob))
    /\ \E sel \in [1..SampleSize(num_personas, Glob) -> Range(Glob)] :
          /\ IsSample(sel, Glob, SampleSize(num_personas, Glob))
          /\ selected_files' = sel
          /\ LET st == LoadAll([personas |-> <<>>, errors |-> <<>>], sel)
             IN  /\ personas' = st.personas
                 /\ error_log' = st.errors
    /\ yaml_files' = Glob
    /\ individual_responses' = <<>>
    /\ idx' = 1
    /\ pc' = "individual"
    /\ UNCHANGED <<dirExists, files, num_personas, collective_responses,
                   error, result, calls>>

\* random.sample raises inside load_personas; nothing catches it.
LoadPersonasRaises ==
    /\ pc = "load"
    /\ SampleRaises(Glob, SampleSize(num_personas, Glob))
    /\ yaml_files' = Glob
    /\ pc' = "aborted"
    /\ error' = "ValueError"
    /\ UNCHANGED <<dirExists, files, num_personas, selected_files, personas,
                   error_log, individual_responses, collective_responses,
                   idx, result, calls>>

\* First loop, one iteration: the completion call returns and is stored.
IndividualResponse ==
    /\ pc = "individual"
    /\ ~LoopDone(idx, personas)
    /\ ~NameRaises(personas[idx])
    /\ \E text \in Texts :
          /\ calls' = Append(calls, Call("individual", idx, <<>>, text))
          /\ individual_responses' =
                 DictSet(individual_responses, personas[idx].name, text)
    /\ idx' = idx + 1
    /\ UNCHANGED <<dirExists, files, num_personas, yaml_files, selected_files,
                   personas, error_log, collective_responses, pc, error, result>>

\* A buggy handler: the failure is swallowed and the loop goes on.
IndividualResponseSwallowed ==
    /\ pc = "individual"
    /\ ~LoopDone(idx, personas)
    /\ ~NameRaises(personas[idx])
    /\ calls' = Append(calls, Call("individual", idx, <<>>, Raised))
    /\ idx' = idx + 1
    /\ UNCHANGED <<dirExists, files, num_personas, yaml_files, selected_files,
                   personas, error_log, individual_responses,
                   collective_responses, pc, error, result>>

\* First loop: the completion call raises; get_individual_response logs and
\* re-raises, run() does not catch.
IndividualResponseRaises ==
    /\ pc = "individual"
    /\ ~LoopDone(idx, personas)
    /\ ~NameRaises(personas[idx])
    /\ calls' = Append(calls, Call("individual", idx, <<>>, Raised))
    /\ pc' = "aborted"
    /\ error' = "CompletionFailure"
    /\ UNCHANGED <<dirExists, files, num_personas, yaml_files, selected_files,
                   personas, error_log, individual_responses,
                   collective_responses, idx, result>>

\* First loop: persona['name'] raises in get_individual_response before any
\* completion call is made.
IndividualNameRaises ==
    /\ pc = "individual"
    /\ ~LoopDone(idx, personas)
    /\ NameRaises(personas[idx])
    /\ pc' = "aborted"
    /\ error' = "LookupError"
    /\ UNCHANGED <<dirExists, files, num_personas, yaml_files, selected_files,
                   personas, error_log, individual_responses,
                   collective_responses, idx, result, calls>>

\* The first loop ends; collective_responses = {} and the second loop starts.
StartCollective ==
    /\ pc = "individual"
    /\ LoopDone(idx, personas)
    /\ collective_responses' = <<>>
    /\ idx' = 1
    /\ pc' = "collective"
    /\ UNCHANGED <<dirExists, files, num_personas, yaml_files, selected_files,
                   personas, error_log, individual_responses, error, result,
                   calls>>

\* Second loop, one iteration: the completion call returns and is stored.
\* (Every persona here has a name: the first loop raised otherwise.)
CollectiveResponse ==
    /\ pc = "collective"
    /\ ~LoopDone(idx, personas)
    /\ ~NameRaises(personas[idx])
    /\ \E text \in Texts :
          /\ calls' = Append(calls,
                 Call("collective", idx,
                      OtherResponses(individual_responses, personas[idx].name),
                      text))
          /\ collective_responses' =
                 DictSet(collective_responses, personas[idx].name, text)
    /\ idx' = idx + 1
    /\ UNCHANGED <<dirExists, files, num_personas, yaml_files, selected_files,
                   personas, error_log, individual_responses, pc, error, result>>

\* A buggy handler: the failure is swallowed and the loop goes on.
CollectiveResponseSwallowed ==
    /\ pc = "collective"
    /\ ~LoopDone(idx, personas)
    /\ ~NameRaises(personas[idx])
    /\ calls' = Append(calls,
           Call("collective", idx,
                OtherResponses(individual_responses, personas[idx].name),
                Raised))
    /\ idx' = idx + 1
    /\ UNCHANGED <<dirExists, files, num_personas, yaml_files, selected_files,
                   personas, error_log, individual_responses,
                   collective_responses, pc, error, result>>

\* Second loop: the completion call raises and the run aborts.
CollectiveResponseRaises ==
    /\ pc = "collective"
    /\ ~LoopDone(idx, personas)
    /\ ~NameRaises(personas[idx])
    /\ calls' = Append(calls,
           Call("collective", idx,
                OtherResponses(individual_responses, personas[idx].name),
                Raised))
    /\ pc' = "aborted"
    /\ error' = "CompletionFailure"
    /\ UNCHANGED <<dirExists, files, num_personas, yaml_files, selected_files,
                   personas, error_log, individual_responses,
                   collective_responses, idx, result>>

\* The second loop ends and run() returns the two mappings.
ReturnResult ==
    /\ pc = "collective"
    /\ LoopDone(idx, personas)
    /\ result' = <<[individual_responses |-> individual_responses,
                    collective_responses |-> collective_responses]>>
    /\ pc' = "done"
    /\ UNCHANGED <<dirExists, files, num_personas, yaml_files, selected_files,
                   personas, error_log, individual_responses,
                   collective_responses, idx, error, calls>>

Next ==
    \/ LoadPersonas
    \/ LoadPersonasRaises
    \/ IndividualResponse
    \/ IndividualResponseRaises
    \/ IndividualNameRaises
    \/ StartCollective
    \/ CollectiveResponse
    \/ CollectiveResponseRaises
    \/ ReturnResult

Spec == Init /\ [][Next]_vars

\* ------------------------------------------------------ derived notions
\* run() ended, with a result or with an exception.
Terminated == pc \in {"done", "aborted"}

\* load_personas returned (it did not raise).
Loaded == pc # "load" /\ error # "ValueError"

NameOf(p) == personas[p].name

PersonaNames == {NameOf(p) : p \in DOMAIN personas}

\* The text the individual completion call for persona p returned.
IndividualText(p) ==
    LET k == CHOOSE k \in DOMAIN calls :
                 calls[k].fn = "individual" /\ calls[k].persona = p
    IN  calls[k].outcome

\* The last loaded persona that bears the name.
LastNamed(name) ==
    CHOOSE p \in DOMAIN personas :
        /\ NameOf(p) = name
        /\ \A q \in DOMAIN personas : NameOf(q) = name => q <= p

\* The personas that are the first to bear their name, in load order.
FirstNamed ==
    SelectSeq([p \in DOMAIN personas |-> p],
              LAMBDA p : \A q \in 1..(p - 1) : NameOf(q) # NameOf(p))

\* What persona p is to be shown when names are keys: per other name, in
\* order of first appearance, the response of the last persona bearing it.
PeerContext(p) ==
    LET peers == SelectSeq(FirstNamed, LAMBDA q : NameOf(q) # NameOf(p))
    IN  [k \in DOMAIN peers |-> IndividualText(LastNamed(NameOf(peers[k])))]

\* The number of positions of the sequence s that hold the value v.
Count(s, v) == Cardinality({k \in DOMAIN s : s[k] = v})

\* others holds the individual response of every persona but p exactly once.
EveryOtherOnce(others, p) ==
    \A text \in Texts :
        Count(others, text)
            = Cardinality({q \in DOMAIN personas :
                               q # p /\ IndividualText(q) = text})

\* The selected files that parse, in selection order.
ParsedSelected == SelectSeq(selected_files, LAMBDA f : ~ParseRaises(f))

\* ---------------------------------------------------------------- C1
\* C1 as stated: a run that completes with N loaded personas returns two
\* mappings of exactly N entries each, with identical key sets.
C1_Original ==
    pc = "done" =>
        /\ Len(result[1].individual_responses) = Len(personas)
        /\ Len(result[1].collective_responses) = Len(personas)
        /\ Keys(result[1].individual_responses)
               = Keys(result[1].collective_responses)

\* C1 amended: a run that completes returns two mappings whose key sets are
\* both the set of the loaded personas' names, each with one entry per
\* distinct name (so exactly N entries when the N names are pairwise
\* distinct).
C1_EntriesPerDistinctName ==
    pc = "done" =>
        /\ Keys(result[1].individual_responses) = PersonaNames
        /\ Keys(result[1].collective_responses) = PersonaNames
        /\ Len(result[1].individual_responses) = Cardinality(PersonaNames)
        /\ Len(result[1].collective_responses) = Cardinality(PersonaNames)
        /\ (Cardinality(PersonaNames) = Len(personas) =>
                /\ Len(result[1].individual_responses) = Len(personas)
                /\ Len(result[1].collective_responses) = Len(personas))

C1_Witness ==
    /\ pc = "done"
    /\ Len(personas) = 3
    /\ Cardinality(PersonaNames) = 2
    /\ Len(result[1].individual_responses) = 2

\* ---------------------------------------------------------------- C2
\* C2 as stated: the other_responses passed for persona P hold the
\* individual response of every other loaded persona exactly once, and not
\* P's own.
C2_Original ==
    \A k \in DOMAIN calls :
        calls[k].fn = "collective" =>
            /\ Len(calls[k].other_responses) = Len(personas) - 1
            /\ EveryOtherOnce(calls[k].other_responses, calls[k].persona)

\* C2 amended: the other_responses passed for persona P hold, in order of
\* first appearance, exactly one response per loaded name other than P's,
\* namely the individual response of the last persona bearing that name;
\* when the loaded names are pairwise distinct, that is the individual
\* response of every other loaded persona exactly once.
C2_PeerContextByName ==
    \A k \in DOMAIN calls :
        calls[k].fn = "collective" =>
            /\ calls[k].other_responses = PeerContext(calls[k].persona)
            /\ (Cardinality(PersonaNames) = Len(personas) =>
                    /\ Len(calls[k].other_responses) = Len(personas) - 1
                    /\ EveryOtherOnce(calls[k].other_responses,
                                      calls[k].persona))

C2_Witness ==
    /\ Len(personas) = 3
    /\ Cardinality(PersonaNames) = 3
    /\ \E k \in DOMAIN calls :
          /\ calls[k].fn = "collective"
          /\ calls[k].persona = 2
          /\ Len(calls[k].other_responses) = 2
          /\ calls[k].other_responses[1] # calls[k].other_responses[2]

\* ---------------------------------------------------------------- C3
\* C3: a collective completion call is issued only after every loaded
\* persona's individual call has returned a result, and no individual
\* response is written after the first collective call.
C3_PhaseBarrier ==
    \A k \in DOMAIN calls :
        calls[k].fn = "collective" =>
            /\ \A p \in DOMAIN personas :
                  \E j \in 1..(k - 1) :
                      /\ calls[j].fn = "individual"
                      /\ calls[j].persona = p
                      /\ calls[j].outcome \in Texts
                      /\ HasKey(individual_responses, NameOf(p))
            /\ \A j \in DOMAIN calls : j > k => calls[j].fn = "collective"

C3_Witness ==
    /\ Len(personas) = 3
    /\ \E k \in DOMAIN calls : calls[k].fn = "collective"

\* ---------------------------------------------------------------- C4
\* C4: a completion call that fails, in either phase, is the last call of
\* the run: the run is aborted with that failure and returns no result.
C4_AllOrNothing ==
    \A k \in DOMAIN calls :
        calls[k].outcome = Raised =>
            /\ k = Len(calls)
            /\ pc = "aborted"
            /\ error = "CompletionFailure"
            /\ result = <<>>

C4_Witness ==
    /\ pc = "aborted"
    /\ Len(personas) = 3
    /\ Len(calls) = 5
    /\ calls[5].fn = "collective"
    /\ calls[5].outcome = Raised
    /\ collective_responses # <<>>
    /\ result = <<>>

\* ---------------------------------------------------------------- C5
\* C5 as stated: with no persona file available, load_personas returns an
\* empty sequence without error and run() then fails with
\* EmptyPersonaSetError instead of returning a result. (Stated for a
\* non-negative num_personas.)
C5_EmptyPersonaSetFails ==
    (pc # "load" /\ yaml_files = <<>> /\ num_personas >= 0) =>
        /\ Loaded
        /\ personas = <<>>
        /\ pc # "done"
        /\ result = <<>>
        /\ (Terminated => error = "EmptyPersonaSetError")

\* ---------------------------------------------------------------- C6
\* C6 as stated: with the personas directory missing or inaccessible,
\* load_personas fails with NotFoundError and run() returns no result.
\* (Stated for a non-negative num_personas.)
C6_MissingDirectoryFails ==
    (pc # "load" /\ ~dirExists /\ num_personas >= 0) =>
        /\ pc = "aborted"
        /\ error = "NotFoundError"
        /\ result = <<>>

\* ---------------------------------------------------------------- C7
\* C7: a selected file that fails to parse is logged and skipped without
\* load_personas raising: the personas returned are those of the other
\* selected files, in order, and a run that completes answers for them.
C7_MalformedSkipped ==
    /\ (error = "ValueError" => num_personas < 0)
    /\ (Loaded =>
            /\ [k \in DOMAIN personas |-> personas[k].src] = ParsedSelected
            /\ \A k \in DOMAIN selected_files :
                  ParseRaises(selected_files[k]) =>
                      /\ selected_files[k] \in Range(error_log)
                      /\ \A p \in DOMAIN personas :
                            personas[p].src # selected_files[k])
    /\ (pc = "done" =>
            Keys(result[1].individual_responses)
                = {files[ParsedSelected[k]] : k \in DOMAIN ParsedSelected})

C7_Witness ==
    /\ pc = "done"
    /\ Len(selected_files) = 3
    /\ Cardinality({k \in DOMAIN selected_files :
                        ParseRaises(selected_files[k])}) = 1
    /\ Len(personas) = 2
    /\ Len(result[1].collective_responses) = 2

\* ---------------------------------------------------------------- C8
\* C8 as stated: for every count <= the number of available files,
\* load_personas selects files without duplicates, min(count, available)
\* of them.
C8_Original ==
    (pc # "load" /\ num_personas <= Len(yaml_files)) =>
        /\ Injective(selected_files)
        /\ Len(selected_files) = Min(num_personas, Len(yaml_files))

\* C8 amended: for every count with 0 <= count <= the number of available
\* files, load_personas selects files of the directory without duplicates,
\* min(count, available) of them.
C8_SampleWithoutReplacement ==
    (pc # "load" /\ 0 <= num_personas /\ num_personas <= Len(yaml_files)) =>
        /\ Loaded
        /\ Injective(selected_files)
        /\ Range(selected_files) \subseteq Range(yaml_files)
        /\ Len(selected_files) = Min(num_personas, Len(yaml_files))

C8_Witness ==
    /\ Loaded
    /\ Len(yaml_files) = 3
    /\ num_personas = 2
    /\ Len(selected_files) = 2

\* ---------------------------------------------------------------- C9
\* C9: in every state of a run every key of collective_responses is a key
\* of individual_responses.
C9_CollectiveKeysAnswered ==
    Keys(collective_responses) \subseteq Keys(individual_responses)

C9_Witness ==
    /\ pc = "collective"
    /\ Len(personas) = 3
    /\ Cardinality(PersonaNames) = 2
    /\ idx = 2
    /\ collective_responses # <<>>

\* --------------------------------------------------------------- C10
\* C10 as stated: no persona load_personas returns comes from a file for
\* which it logged an error, so it returns as many personas as it selected
\* files less the errors it logged.
C10_LoggedFilesNotReturned ==
    Loaded =>
        /\ \A p \in DOMAIN personas : personas[p].src \notin Range(error_log)
        /\ Len(personas) = Len(selected_files) - Len(error_log)


====
